---- MODULE Spec2Model ----
(***************************************************************************)
(* A model of NCAModel (src/lib/mnist_model.py): get_prob, loss_function   *)
(* and forward_adv; of forward of NCAModel and SNNLModel, with SNNLModel's *)
(* forward hooks; of HiddenMixupModel.forward with mixup_data; and of the  *)
(* construction of PreActResNet (src/lib/cifar_resnet.py).                 *)
(*                                                                         *)
(* Numbers.  A tensor element is a record [fin, v]: a finite value v (an   *)
(* integer, on a fixed-point grid), NaN or an infinity.  Arithmetic is     *)
(* that of the reals on the finite values (no rounding, no overflow) and   *)
(* that of IEEE 754 on NaN and the infinities.  Pixels are in units of     *)
(* 1/PixelOne, so the interval [0, 1] is 0..PixelOne.                      *)
(*                                                                         *)
(* Weights.  exp(-k) for an integer k is kept symbolically: a sum of       *)
(* weights is the bag of its exponents (c copies of k stand for            *)
(* c * exp(-k)).  As e is transcendental two such sums are equal as reals  *)
(* exactly when the bags are equal, a sum is 0 exactly when the bag is     *)
(* empty, and it is positive otherwise.  A probability is the pair         *)
(* [num, den] of two such sums; 0/0 is NaN.                                *)
(*                                                                         *)
(* The network.  forward is one convolution, one ReLU and the linear layer *)
(* on images of two pixels; the gradient autograd returns is the chain     *)
(* rule through these layers, applied to a gradient with respect to the    *)
(* embedding that is NaN or 0 where get_prob's result forces it and drawn  *)
(* from UpGrads elsewhere.  Where forward is followed stage by stage       *)
(* (SpecFwd, SpecMix) it is the three convolution and ReLU pairs and fc.   *)
(***************************************************************************)
EXTENDS Integers, Sequences, FiniteSets, Bags

\* ------------------------------------------------------------------ bounds

\* Largest batch size N of a call.
MaxN == 3

\* Largest num_steps handed to forward_adv.
MaxSteps == 2

\* Largest batch size of a call of HiddenMixupModel.forward.
MaxMixN == 2

\* Largest num_blocks[k] a PreActResNet is built with.
MaxBlocks == 2

\* ------------------------------------------------------- program constants

\* torch.min(dist, torch.tensor(50.)): the clamp of the scaled distance.
DistClamp == 50

\* The value 1.0 of torch.clamp(x, 0, 1), in pixel units.
PixelOne == 10

\* The value 1. of lam, in the units lam is kept in.
LamDen == 2

\* self.in_planes = 64 of PreActResNet.__init__.
InitPlanes == 64

\* ------------------------------------------------------------ input domains

\* Class labels.
Labels == {0, 1, 2}

\* Class labels of the batches handed to forward_adv.
AdvLabels == {0, 1}

\* Embedding vectors handed to loss_function (output_dim = 2 here).
Embs == {<<0, 0>>, <<3, 4>>}

\* Values of exp(log_it), the inverse temperature.
Its == {1, 3}

\* Values of the convolution's bias.
ConvBiases == {-2}

\* Input images of forward_adv (two pixels each), in pixel units.
Images == {<<0, 0>>, <<10, 5>>}

\* Values of step_size, in pixel units.
StepSizes == {5, 10}

\* The noise torch.zeros_like(x).normal_(0, step_size) draws for one sample, in
\* multiples of step_size.
NoiseDirs == <<(<<1, -1>>), (<<-1, 0>>)>>

\* Values of the gradient of the loss with respect to one sample's embedding,
\* where it is finite and not zero.
UpGrads == <<(<<7, 1>>), (<<-1, 7>>), (<<-7, -1>>)>>

\* ------------------------------------------------------------------ numbers

\* A finite value n.
Num(n) == [fin |-> TRUE, v |-> n]

\* NaN, and the infinity of sign s (1 or -1).
NaN == [fin |-> FALSE, v |-> 0]

Inf(s) == [fin |-> FALSE, v |-> s]

IsFinite(a) == a.fin

IsNaN(a) == ~a.fin /\ a.v = 0

Sign(n) == IF n > 0 THEN 1 ELSE IF n < 0 THEN -1 ELSE 0

NAdd(a, b) ==
    IF a.fin /\ b.fin THEN Num(a.v + b.v)
    ELSE IF IsNaN(a) \/ IsNaN(b) THEN NaN
    ELSE IF a.fin THEN b
    ELSE IF b.fin \/ a.v = b.v THEN a
    ELSE NaN

NNeg(a) == IF a.fin THEN Num(-a.v) ELSE IF IsNaN(a) THEN NaN ELSE Inf(-a.v)

NSub(a, b) == NAdd(a, NNeg(b))

\* 0 * inf is NaN.
NMul(a, b) ==
    IF a.fin /\ b.fin THEN Num(a.v * b.v)
    ELSE IF IsNaN(a) \/ IsNaN(b) THEN NaN
    ELSE IF Sign(a.v) * Sign(b.v) = 0 THEN NaN
    ELSE Inf(Sign(a.v) * Sign(b.v))

\* a / b: 0/0 is NaN, a/0 is an infinity; a finite quotient is rounded
\* towards zero to the grid.
NDiv(a, b) ==
    IF IsNaN(a) \/ IsNaN(b) THEN NaN
    ELSE IF a.fin /\ b.fin THEN
        IF b.v = 0 THEN (IF a.v = 0 THEN NaN ELSE Inf(Sign(a.v)))
        ELSE Num(Sign(a.v) * Sign(b.v)
                 * ((IF a.v < 0 THEN -a.v ELSE a.v) \div (IF b.v < 0 THEN -b.v ELSE b.v)))
    ELSE IF a.fin THEN Num(0)
    ELSE IF b.fin THEN Inf(a.v * (IF b.v < 0 THEN -1 ELSE 1))
    ELSE NaN

\* torch.min(a, b) propagates NaN.
NMin(a, b) ==
    IF IsNaN(a) \/ IsNaN(b) THEN NaN
    ELSE IF a.fin /\ b.fin THEN (IF a.v <= b.v THEN a ELSE b)
    ELSE IF a.fin THEN (IF b.v < 0 THEN b ELSE a)
    ELSE (IF a.v < 0 THEN a ELSE b)

\* The tuple of a function's values on 1..n, each evaluated once.
Tensor(f) == f \o <<>>

\* A vector of finite values.
Vec(t) == Tensor([d \in DOMAIN t |-> Num(t[d])])

VecFinite(t) == \A d \in DOMAIN t : IsFinite(t[d])

\* sum of a sequence of numbers (tensor.sum).
RECURSIVE NSum(_)
NSum(s) == IF s = <<>> THEN Num(0) ELSE NAdd(s[1], NSum(Tail(s)))

\* ------------------------------------------------------------------ weights

\* torch.exp(-d) of a finite integer d >= 0, as a weight sum of one term.
ExpNeg(d) == SetToBag({d})

\* mask * w for a mask value 0.0 or 1.0.
Masked(m, w) == IF m = 0 THEN EmptyBag ELSE w

\* torch.sum over a sequence of weights.
RECURSIVE WSum(_)
WSum(s) == IF s = <<>> THEN EmptyBag ELSE s[1] (+) WSum(Tail(s))

\* The value 0.0 of torch.zeros, as the probability 0/1.
ZeroProb == [num |-> EmptyBag, den |-> ExpNeg(0)]

\* NaN as a probability: what 0/0 gives.
NaNProb == [num |-> EmptyBag, den |-> EmptyBag]

ProbIsNaN(p) == p.den = EmptyBag

ProbIsZero(p) == p.den # EmptyBag /\ p.num = EmptyBag

ProbIsOne(p) == p.den # EmptyBag /\ p.num = p.den

\* ----------------------------------------------------------------- get_prob

\* A slip: the comparison dropped, every sample counted as same-class.
mask_same_all(i, y) == [j \in 1..Len(y) |-> 1]

\* mask_same = (y_target[i] == y_target).float()
mask_same(i, y) == [j \in 1..Len(y) |-> IF y[i] = y[j] THEN 1 ELSE 0]

\* A slip: mask_not_self[i] = 0 left out, the sample its own neighbour.
mask_not_self_all(i, n) == [j \in 1..n |-> 1]

\* mask_not_self = torch.ones(batch_size); mask_not_self[i] = 0
mask_not_self(i, n) == [j \in 1..n |-> IF j = i THEN 0 ELSE 1]

\* A slip: the square left out, (a - b).sum().
SqDist_NoSquare(a, b) == NSum([d \in 1..Len(a) |-> NSub(a[d], b[d])])

\* ((a - b) ** 2).sum() over the embedding's components.
SqDist(a, b) == NSum([d \in 1..Len(a) |-> NMul(NSub(a[d], b[d]), NSub(a[d], b[d]))])

\* A slip: x compared with itself though x_orig is given.
RefRows_Self(xs, orig) == xs

\* The rows row i is compared with: x_orig when it is given, else x itself.
RefRows(xs, orig) == IF orig.given THEN orig.rows ELSE xs

\* dist = ((x[i] - ref) ** 2).view(batch_size, -1).sum(1) * self.log_it.exp()
DistRow(i, xs, orig, it) ==
    Tensor([j \in 1..Len(xs) |-> NMul(SqDist(xs[i], RefRows(xs, orig)[j]), Num(it))])

\* exp = torch.exp(- torch.min(dist, torch.tensor(50.)))
ExpRow(drow) ==
    Tensor([j \in 1..Len(drow) |-> ExpNeg(NMin(drow[j], Num(DistClamp)).v)])

\* A slip: mask_not_self left out of the numerator only.
ProbRow_NumSelf(i, y, drow) ==
    LET n   == Len(drow)
        ms  == mask_same(i, y)
        mns == mask_not_self(i, n)
        ex  == [j \in 1..n |-> ExpNeg(NMin(drow[j], Num(DistClamp)).v)]
    IN  IF \E j \in 1..n : IsNaN(drow[j])
        THEN NaNProb
        ELSE [num |-> WSum([j \in 1..n |-> Masked(ms[j], ex[j])]),
              den |-> WSum([j \in 1..n |-> Masked(mns[j], ex[j])])]

\* p_target[i] = sum(mask_not_self * mask_same * exp) / sum(mask_not_self * exp);
\* one NaN in dist makes both sums NaN (0 * NaN = NaN), so the ratio is NaN.
ProbRow(i, y, drow) ==
    LET n   == Len(drow)
        ms  == mask_same(i, y)
        mns == mask_not_self(i, n)
        ex  == ExpRow(drow)
    IN  IF \E j \in 1..n : IsNaN(drow[j])
        THEN NaNProb
        ELSE [num |-> WSum([j \in 1..n |-> Masked(mns[j] * ms[j], ex[j])]),
              den |-> WSum([j \in 1..n |-> Masked(mns[j], ex[j])])]

\* ------------------------------------------------------------ loss_function

\* -log(p) of one probability: "nan", "inf" (p = 0) or "fin".
NegLog(p) ==
    IF ProbIsNaN(p) THEN "nan" ELSE IF ProbIsZero(p) THEN "inf" ELSE "fin"

\* loss.mean() (and loss.sum()) of the -log(p) values.
Reduce(ls) ==
    IF \E k \in DOMAIN ls : ls[k] = "nan" THEN "nan"
    ELSE IF \E k \in DOMAIN ls : ls[k] = "inf" THEN "inf"
    ELSE IF ls = <<>> THEN "nan" ELSE "fin"

\* -------------------------------------------------------------------- state

VARIABLES
    pc,           \* where the running call is
    log_it,       \* exp(self.log_it)
    conv_bias,    \* the bias of the convolution (a learned parameter)
    gx,           \* get_prob's argument x: the embeddings
    y_target,     \* the labels
    x_orig,       \* get_prob's argument x_orig: [given, rows]
    i,            \* get_prob's loop index (1-based)
    dist,         \* the dist vector of every row computed so far
    p_target,     \* get_prob's result tensor
    loss,         \* loss_function's result
    x_in,         \* forward_adv's argument x, the caller's tensor
    x,            \* forward_adv's local x
    step_size,    \* forward_adv's arguments
    num_steps,
    rand,
    outputs_orig, \* forward_adv's locals
    outputs,
    grad,
    delta,
    steps_done,   \* the loop iterations forward_adv has completed
    result,       \* the pair forward_adv returns
    calls,        \* the operations the running forward_adv call has performed
    model,        \* the class of the model object
    activations,  \* SNNLModel's attribute self.activations
    attrs_before, \* the object's attributes as the running forward call found them
    fx,           \* forward's local x
    error,        \* the exception a get_prob call has raised, or "none"
    mix_x,        \* HiddenMixupModel.forward's arguments x, target, mixup_alpha
    target,
    mixup_alpha,
    layer_arg,    \* its argument layer_mix (NoLayer for None)
    layer_mix,    \* its local layer_mix, after the draw
    stage,        \* the stage of the network forward is at
    y_a,          \* its locals y_a, y_b, lam
    y_b,
    lam,
    mix_count,    \* the calls of mixup_data the running forward has made
    mix_stage,    \* the stage of the last of them
    block,        \* PreActResNet.__init__'s arguments block and num_blocks
    num_blocks,
    in_planes,    \* self.in_planes
    res_layers,   \* self.layer1 .. self.layer4, as far as built
    layer,        \* the _make_layer call that is running (1..4)
    strides,      \* what is left of _make_layer's list strides
    layers        \* _make_layer's list layers

gpvars == <<gx, y_target, x_orig, i, dist, p_target>>

advvars == <<x_in, x, step_size, num_steps, rand, outputs_orig, outputs, grad,
             delta, steps_done, result, calls>>

fwdvars == <<model, activations, attrs_before, fx>>

\* The variables loss_function, get_prob and forward_adv leave alone.
mixvars == <<mix_x, target, mixup_alpha, layer_arg, layer_mix, stage, y_a, y_b,
             lam, mix_count, mix_stage>>

resvars == <<block, num_blocks, in_planes, res_layers, layer, strides, layers>>

restvars == <<fwdvars, error, mixvars, resvars>>

vars == <<pc, log_it, conv_bias, gpvars, loss, advvars, restvars>>

None == [given |-> FALSE, rows |-> <<>>]

Given(rows) == [given |-> TRUE, rows |-> rows]

Batches(n) == [1..n -> {Vec(e) : e \in Embs}]

\* No call is running: every local is unset.
Idle ==
    /\ pc = "idle"
    /\ gx = <<>>
    /\ y_target = <<>>
    /\ x_orig = None
    /\ i = 0
    /\ dist = <<>>
    /\ p_target = <<>>
    /\ loss = "none"
    /\ x_in = <<>>
    /\ x = <<>>
    /\ step_size = 0
    /\ num_steps = 0
    /\ rand = FALSE
    /\ outputs_orig = <<>>
    /\ outputs = <<>>
    /\ grad = <<>>
    /\ delta = <<>>
    /\ steps_done = 0
    /\ result = <<>>
    /\ calls = <<>>

\* The names of the layers SNNLModel.__init__ registers a forward hook on
\* (self.layers).
SNNLLayers == {"relu1", "relu2", "relu3"}

\* self.activations = {}: no layer has a captured output (<<>> stands for a
\* missing key).
NoActivations == [l \in SNNLLayers |-> <<>>]

\* No forward call is running, none has run.
FwdIdle ==
    /\ activations = NoActivations
    /\ attrs_before = NoActivations
    /\ fx = <<>>

\* The other classes' objects, untouched.
\* layer_mix = None; a local not yet assigned.
NoLayer == 0 - 1

Unset == 0 - 1

\* No forward call of a HiddenMixupModel is running.
MixIdle ==
    /\ mix_x = <<>>
    /\ target = <<>>
    /\ mixup_alpha = 0
    /\ layer_arg = NoLayer
    /\ layer_mix = NoLayer
    /\ stage = 0
    /\ y_a = <<>>
    /\ y_b = <<>>
    /\ lam = Unset
    /\ mix_count = 0
    /\ mix_stage = Unset

\* No PreActResNet is under construction.
ResIdle ==
    /\ block = "none"
    /\ num_blocks = <<>>
    /\ in_planes = 0
    /\ res_layers = <<>>
    /\ layer = 0
    /\ strides = <<>>
    /\ layers = <<>>

RestIdle == FwdIdle /\ error = "none" /\ MixIdle /\ ResIdle

\* NCAModel.__init__: log_it = log(init_it), the layers' parameters set.
Init ==
    /\ log_it \in Its
    /\ conv_bias \in ConvBiases
    /\ Idle
    /\ model = "NCAModel"
    /\ RestIdle

\* The caller takes the result; the model object is ready for the next call.
Finish ==
    /\ pc \in {"loss_returned", "adv_returned"}
    /\ pc' = "idle"
    /\ gx' = <<>>
    /\ y_target' = <<>>
    /\ x_orig' = None
    /\ i' = 0
    /\ dist' = <<>>
    /\ p_target' = <<>>
    /\ loss' = "none"
    /\ x_in' = <<>>
    /\ x' = <<>>
    /\ step_size' = 0
    /\ num_steps' = 0
    /\ rand' = FALSE
    /\ outputs_orig' = <<>>
    /\ outputs' = <<>>
    /\ grad' = <<>>
    /\ delta' = <<>>
    /\ steps_done' = 0
    /\ result' = <<>>
    /\ calls' = <<>>
    /\ UNCHANGED <<restvars, log_it, conv_bias>>

\* ------------------------------------------- get_prob and loss_function

\* The whole dist matrix and the whole result of one get_prob call.
GetProbDist(xs, orig, it) ==
    Tensor([r \in 1..Len(xs) |-> DistRow(r, xs, orig, it)])

GetProb(y, dm) == Tensor([r \in 1..Len(dm) |-> ProbRow(r, y, dm[r])])

\* loss_function(output, y_target, orig) calls get_prob(output, y_target,
\* x_orig=orig); get_prob up to its loop: batch_size = x.size(0),
\* p_target = torch.zeros(batch_size).
CallLossFunction ==
    /\ pc = "idle"
    /\ \E n \in 1..MaxN :
         \E xs \in Batches(n), y \in [1..n -> Labels] :
           \E orig \in {None} \cup {Given(r) : r \in Batches(n)} :
             /\ gx' = xs
             /\ y_target' = y
             /\ x_orig' = orig
             /\ p_target' = [r \in 1..n |-> ZeroProb]
    /\ i' = 1
    /\ dist' = <<>>
    /\ pc' = "get_prob"
    /\ UNCHANGED <<restvars, log_it, conv_bias, loss, advvars>>

\* One iteration of get_prob's loop: row i.
GetProbRow ==
    /\ pc = "get_prob"
    /\ i <= Len(gx)
    /\ LET drow == DistRow(i, gx, x_orig, log_it)
       IN  /\ dist' = Append(dist, drow)
           /\ p_target' = [p_target EXCEPT ![i] = ProbRow(i, y_target, drow)]
    /\ i' = i + 1
    /\ UNCHANGED <<restvars, pc, log_it, conv_bias, gx, y_target, x_orig, loss, advvars>>

\* return p_target
GetProbReturn ==
    /\ pc = "get_prob"
    /\ i > Len(gx)
    /\ pc' = "returned"
    /\ UNCHANGED <<restvars, log_it, conv_bias, gpvars, loss, advvars>>

\* loss_function after get_prob: loss = -torch.log(p_target); return loss.mean()
LossFunctionReturn ==
    /\ pc = "returned"
    /\ loss' = Reduce([r \in 1..Len(p_target) |-> NegLog(p_target[r])])
    /\ pc' = "loss_returned"
    /\ UNCHANGED <<restvars, log_it, conv_bias, gpvars, advvars>>

NextProb ==
    \/ CallLossFunction
    \/ GetProbRow
    \/ GetProbReturn
    \/ LossFunctionReturn
    \/ Finish

\* loss_function, and get_prob as it calls it.
SpecProb == Init /\ [][NextProb]_vars

\* ------------------------------------------------------------------ forward

\* The layers of forward on one sample of two pixels: a convolution (kernel
\* size 1, weight 1, bias b), the ReLU, and the linear layer fc with the
\* weights ((1, 1), (1, -1)).
Conv(img, b) == Tensor([q \in DOMAIN img |-> NAdd(img[q], Num(b))])

Relu(a) ==
    IF a.fin THEN (IF a.v > 0 THEN a ELSE Num(0))
    ELSE IF a.v < 0 THEN Num(0) ELSE a

Fc(h) == <<NAdd(h[1], h[2]), NSub(h[1], h[2])>>

\* forward(x) on one sample, and on a batch.
Forward(img, b) ==
    LET a == Conv(img, b)
    IN  Fc(Tensor([q \in DOMAIN img |-> Relu(a[q])]))

ForwardBatch(xs, b) == Tensor([s \in 1..Len(xs) |-> Forward(xs[s], b)])

\* Backpropagation through forward for one sample: the gradient g of the loss
\* with respect to the embedding, through fc (its transpose), the ReLU (1 where
\* the pre-activation is positive, else 0) and the convolution (weight 1).
ReluGrad(a) == IF (a.fin /\ a.v > 0) \/ (~a.fin /\ a.v > 0) THEN 1 ELSE 0

Backward(img, b, g) ==
    LET gh == <<NAdd(g[1], g[2]), NSub(g[1], g[2])>>
        a  == Conv(img, b)
    IN  Tensor([q \in DOMAIN img |-> NMul(gh[q], Num(ReluGrad(a[q])))])

\* -------------------------------------------------------------- forward_adv

\* A slip: the noise added whether rand is set or not.
ForwardAdvEnter_Noisy(xin, r, noise, b) ==
    [outputs_orig |-> ForwardBatch(xin, b),
     x |-> Tensor([s \in 1..Len(xin) |->
              Tensor([q \in DOMAIN xin[s] |-> NAdd(xin[s][q], noise[s][q])])])]

\* A slip: the reference embeddings taken after the noise is added.
ForwardAdvEnter_Late(xin, r, noise, b) ==
    LET xn == IF r THEN Tensor([s \in 1..Len(xin) |->
                           Tensor([q \in DOMAIN xin[s] |-> NAdd(xin[s][q], noise[s][q])])])
              ELSE xin
    IN  [outputs_orig |-> ForwardBatch(xn, b), x |-> xn]

\* forward_adv up to its loop: outputs_orig = self.forward(x); x = x.detach();
\* if rand: x = x + torch.zeros_like(x).normal_(0, step_size)
ForwardAdvEnter(xin, r, noise, b) ==
    [outputs_orig |-> ForwardBatch(xin, b),
     x |-> IF r THEN Tensor([s \in 1..Len(xin) |->
                        Tensor([q \in DOMAIN xin[s] |-> NAdd(xin[s][q], noise[s][q])])])
           ELSE xin]

\* The gradient of loss = -log(p_target).sum() with respect to the embedding of
\* one sample with probability p: NaN where p is 0 (log's derivative is
\* infinite and meets a zero factor) or NaN; 0 where p is identically 1 (every
\* other sample is of the same class), up to a rounding residue (exact FALSE);
\* else the given value up.
LossGrad(p, up, exact) ==
    IF ProbIsNaN(p) \/ ProbIsZero(p) THEN <<NaN, NaN>>
    ELSE IF ProbIsOne(p) /\ exact THEN Vec(<<0, 0>>)
    ELSE Vec(up)

\* grad = torch.autograd.grad(loss, x)[0]: row s of x reaches the loss through
\* outputs[s] and p_target[s] alone (x_orig is detached).
InputGrad(xs, b, p, c, exact) ==
    Tensor([s \in 1..Len(xs) |->
        Backward(xs[s], b, LossGrad(p[s], UpGrads[((s + c) % Len(UpGrads)) + 1], exact))])

Isqrt(n) == CHOOSE r \in 0..n : r * r <= n /\ (r + 1) * (r + 1) > n

\* A slip: norm(2) over the whole batch instead of norm(2, 1) per sample.
grad_norm_batch(g) ==
    LET all == [s \in 1..Len(g) |-> NSum([q \in DOMAIN g[s] |-> NMul(g[s][q], g[s][q])])]
        n2  == NSum(all)
        nb  == IF n2.fin THEN Num(Isqrt(n2.v)) ELSE n2
    IN  Tensor([s \in 1..Len(g) |-> nb])

\* grad_norm = grad.view(x.size(0), -1).norm(2, 1)
grad_norm(g) ==
    Tensor([s \in 1..Len(g) |->
        LET n2 == NSum([q \in DOMAIN g[s] |-> NMul(g[s][q], g[s][q])])
        IN  IF n2.fin THEN Num(Isqrt(n2.v)) ELSE n2])

\* delta = step_size * grad / grad_norm.view(x.size(0), 1, 1, 1)
Delta(ss, g, gn) ==
    Tensor([s \in 1..Len(g) |->
        Tensor([q \in DOMAIN g[s] |-> NDiv(NMul(Num(ss), g[s][q]), gn[s])])])

\* torch.clamp(a, 0, 1) of one element; NaN stays NaN.
Clamp(a) ==
    IF a.fin THEN (IF a.v < 0 THEN Num(0) ELSE IF a.v > PixelOne THEN Num(PixelOne) ELSE a)
    ELSE IF IsNaN(a) THEN NaN
    ELSE IF a.v < 0 THEN Num(0) ELSE Num(PixelOne)

\* x = x.detach() + delta; x = torch.clamp(x, 0, 1)
StepAndClamp(xs, d) ==
    Tensor([s \in 1..Len(xs) |->
        Tensor([q \in DOMAIN xs[s] |-> Clamp(NAdd(xs[s][q], d[s][q]))])])

\* The noise tensor of one draw c: sample s gets step_size times a direction.
Noise(n, ss, c) ==
    Tensor([s \in 1..n |->
        LET dir == NoiseDirs[((s + c) % Len(NoiseDirs)) + 1]
        IN  Tensor([q \in DOMAIN dir |-> Num(ss * dir[q])])])

\* A slip: the clamp ahead of the step.
IterationCalls_ClampFirst == <<"forward", "get_prob", "grad", "clamp", "step">>

\* The operations of one iteration of forward_adv's loop, in the order of its
\* statements: self.forward(x), self.get_prob(...), torch.autograd.grad(loss,
\* x), x = x.detach() + delta, x = torch.clamp(x, 0, 1).
IterationCalls == <<"forward", "get_prob", "grad", "step", "clamp">>

\* forward_adv(x, y_target, step_size, num_steps, rand) up to its loop.
CallForwardAdv ==
    /\ pc = "idle"
    /\ \E n \in 1..MaxN :
         \E xs \in [1..n -> {Vec(im) : im \in Images}], y \in [1..n -> AdvLabels] :
           \E ss \in StepSizes, ns \in 0..MaxSteps, r \in BOOLEAN,
              c \in 1..Len(NoiseDirs) :
             LET e == ForwardAdvEnter(xs, r, Noise(n, ss, c), conv_bias)
             IN  /\ x_in' = xs
                 /\ y_target' = y
                 /\ step_size' = ss
                 /\ num_steps' = ns
                 /\ rand' = r
                 /\ outputs_orig' = e.outputs_orig
                 /\ x' = e.x
    /\ steps_done' = 0
    /\ calls' = <<"forward">>
    /\ pc' = "adv_loop"
    /\ UNCHANGED <<restvars, log_it, conv_bias, gx, x_orig, i, dist, p_target, loss,
                   outputs, grad, delta, result>>

\* One iteration of forward_adv's loop: forward, get_prob against
\* outputs_orig.detach(), the gradient of the loss, the step and the clamp.
AdvIteration ==
    /\ pc = "adv_loop"
    /\ steps_done < num_steps
    /\ \E outs \in {ForwardBatch(x, conv_bias)}, orig \in {Given(outputs_orig)} :
         \E dm \in {GetProbDist(outs, orig, log_it)} :
           \E p \in {GetProb(y_target, dm)} :
             /\ outputs' = outs
             /\ gx' = outs
             /\ x_orig' = orig
             /\ i' = Len(outs) + 1
             /\ dist' = dm
             /\ p_target' = p
             /\ \E c \in 1..Len(UpGrads), exact \in BOOLEAN :
                  \E g \in {InputGrad(x, conv_bias, p, c, exact)} :
                    \E d \in {Delta(step_size, g, grad_norm(g))} :
                      /\ grad' = g
                      /\ delta' = d
                      /\ x' = StepAndClamp(x, d)
    /\ steps_done' = steps_done + 1
    /\ calls' = calls \o IterationCalls
    /\ UNCHANGED <<restvars, pc, log_it, conv_bias, y_target, loss, x_in, step_size,
                   num_steps, rand, outputs_orig, result>>

\* return outputs_orig, self.forward(x)
AdvReturn ==
    /\ pc = "adv_loop"
    /\ steps_done = num_steps
    /\ result' = <<outputs_orig, ForwardBatch(x, conv_bias)>>
    /\ calls' = Append(calls, "forward")
    /\ pc' = "adv_returned"
    /\ UNCHANGED <<restvars, log_it, conv_bias, gpvars, loss, x_in, x, step_size, num_steps,
                   rand, outputs_orig, outputs, grad, delta, steps_done>>

NextAdv ==
    \/ CallForwardAdv
    \/ AdvIteration
    \/ AdvReturn
    \/ Finish

\* The model object at the inverse temperature 1 (get_prob's distances are
\* scaled by it; nothing else in forward_adv reads it).
InitAdv == Init /\ log_it = 1

\* forward_adv.
SpecAdv == InitAdv /\ [][NextAdv]_vars

\* ------------------------------------------- forward of NCAModel, SNNLModel

\* The classes whose forward is an embedding network of three convolutions
\* and a linear layer.
Models == {"NCAModel", "SNNLModel"}

\* The attributes of the model object that are not learned parameters:
\* NCAModel has none; SNNLModel has self.layers (never assigned after
\* __init__) and self.activations.
Attrs == activations

\* The stage of forward after the one named.
NextStage(name) ==
    IF name = "relu1" THEN "relu2" ELSE IF name = "relu2" THEN "relu3" ELSE "fc"

\* x = self.convK(x); x = self.reluK(x) on a batch.
ConvRelu(xs, b) ==
    Tensor([s \in 1..Len(xs) |->
        LET a == Conv(xs[s], b)
        IN  Tensor([q \in DOMAIN a |-> Relu(a[q])])])

\* The hook _get_activation(name) returns: self.activations[name] = output.
Hook(acts, name, output) == [acts EXCEPT ![name] = output]

\* forward(x) is entered.
ForwardCall ==
    /\ pc = "idle"
    /\ \E n \in 1..MaxN :
         \E xs \in [1..n -> {Vec(im) : im \in Images}] : fx' = xs
    /\ attrs_before' = Attrs
    /\ pc' = "relu1"
    /\ UNCHANGED <<resvars, mixvars, error, log_it, conv_bias, gpvars, loss, advvars, model, activations>>

\* x = self.convK(x); x = self.reluK(x), and the forward hook of reluK where
\* one is registered (SNNLModel registers one on each of its ReLUs, NCAModel
\* registers none).
ForwardLayer ==
    /\ pc \in SNNLLayers
    /\ \E out \in {ConvRelu(fx, conv_bias)} :
         /\ fx' = out
         /\ activations' = IF model = "SNNLModel" THEN Hook(activations, pc, out)
                           ELSE activations
    /\ pc' = NextStage(pc)
    /\ UNCHANGED <<resvars, mixvars, error, log_it, conv_bias, gpvars, loss, advvars, model, attrs_before>>

\* x = x.view(x.size(0), -1); x = self.fc(x); return x
ForwardFc ==
    /\ pc = "fc"
    /\ fx' = Tensor([s \in 1..Len(fx) |-> Fc(fx[s])])
    /\ pc' = "fwd_returned"
    /\ UNCHANGED <<resvars, mixvars, error, log_it, conv_bias, gpvars, loss, advvars, model, activations,
                   attrs_before>>

\* The caller takes the embeddings; the object stays as forward left it.
ForwardDone ==
    /\ pc = "fwd_returned"
    /\ fx' = <<>>
    /\ pc' = "idle"
    /\ UNCHANGED <<resvars, mixvars, error, log_it, conv_bias, gpvars, loss, advvars, model, activations,
                   attrs_before>>

NextFwd ==
    \/ ForwardCall
    \/ ForwardLayer
    \/ ForwardFc
    \/ ForwardDone

\* An object of either class after its __init__.
InitFwd ==
    /\ log_it = 1
    /\ conv_bias \in ConvBiases
    /\ Idle
    /\ model \in Models
    /\ RestIdle

\* forward, called any number of times.
SpecFwd == InitFwd /\ [][NextFwd]_vars

\* --------------------------------------- get_prob on arguments of any shape

\* The shape two 1-D tensors of the lengths a and b broadcast to, 0 - 1 where
\* they do not broadcast (the product raises a RuntimeError).
BroadcastLen(a, b) ==
    IF a = b THEN a ELSE IF a = 1 THEN b ELSE IF b = 1 THEN a ELSE 0 - 1

\* Element j of a 1-D tensor t broadcast to a longer shape.
At(t, j) == IF Len(t) = 1 THEN t[1] ELSE t[j]

\* mask_same = (y_target[i] == y_target).float() for labels of any number.
MaskSameAny(r, y) == [j \in 1..Len(y) |-> IF y[r] = y[j] THEN 1 ELSE 0]

\* p_target[i] of lines 608-609 where mask_same has the length of y_target and
\* mask_not_self and exp the length batch_size: the numerator is summed over
\* the broadcast shape, the denominator over batch_size.
ProbRowAny(r, y, drow) ==
    LET n   == Len(drow)
        ms  == MaskSameAny(r, y)
        mns == mask_not_self(r, n)
        ex  == ExpRow(drow)
        len == BroadcastLen(n, Len(y))
    IN  [num |-> WSum([j \in 1..len |-> Masked(At(mns, j) * At(ms, j), At(ex, j))]),
         den |-> WSum([j \in 1..n |-> Masked(mns[j], ex[j])])]

\* get_prob(x, y_target, x_orig) up to its loop, on a batch of n rows, m
\* labels and, where x_orig is given, k reference rows: the assert of line 590
\* is the one check of the arguments.
CallGetProb ==
    /\ pc = "idle"
    /\ \E n \in 1..MaxN, m \in 0..MaxN :
         \E xs \in Batches(n), y \in [1..m -> AdvLabels] :
           \E orig \in {None} \cup {Given(r) : r \in UNION {Batches(k) : k \in 1..MaxN}} :
             /\ gx' = xs
             /\ y_target' = y
             /\ x_orig' = orig
             /\ IF orig.given /\ Len(xs) # Len(orig.rows)
                THEN /\ error' = "AssertionError"
                     /\ pc' = "raised"
                     /\ p_target' = <<>>
                ELSE /\ error' = "none"
                     /\ pc' = "get_prob_any"
                     /\ p_target' = [r \in 1..n |-> ZeroProb]
    /\ i' = 1
    /\ dist' = <<>>
    /\ UNCHANGED <<log_it, conv_bias, loss, advvars, fwdvars, mixvars, resvars>>

\* One iteration of get_prob's loop: y_target[i] raises an IndexError past the
\* last label, the product of line 608 a RuntimeError where the masks do not
\* broadcast.
GetProbRowAny ==
    /\ pc = "get_prob_any"
    /\ i <= Len(gx)
    /\ IF i > Len(y_target)
       THEN /\ error' = "IndexError"
            /\ pc' = "raised"
            /\ UNCHANGED <<i, dist, p_target>>
       ELSE IF BroadcastLen(Len(gx), Len(y_target)) < 0
       THEN /\ error' = "RuntimeError"
            /\ pc' = "raised"
            /\ UNCHANGED <<i, dist, p_target>>
       ELSE /\ \E drow \in {DistRow(i, gx, x_orig, log_it)} :
                 /\ dist' = Append(dist, drow)
                 /\ p_target' = [p_target EXCEPT ![i] = ProbRowAny(i, y_target, drow)]
            /\ i' = i + 1
            /\ UNCHANGED <<pc, error>>
    /\ UNCHANGED <<log_it, conv_bias, gx, y_target, x_orig, loss, advvars, fwdvars, mixvars, resvars>>

\* return p_target
GetProbReturnAny ==
    /\ pc = "get_prob_any"
    /\ i > Len(gx)
    /\ pc' = "any_returned"
    /\ UNCHANGED <<log_it, conv_bias, gpvars, loss, advvars, restvars>>

\* The caller takes p_target or handles the exception.
GetProbDone ==
    /\ pc \in {"any_returned", "raised"}
    /\ pc' = "idle"
    /\ gx' = <<>>
    /\ y_target' = <<>>
    /\ x_orig' = None
    /\ i' = 0
    /\ dist' = <<>>
    /\ p_target' = <<>>
    /\ error' = "none"
    /\ UNCHANGED <<log_it, conv_bias, loss, advvars, fwdvars, mixvars, resvars>>

NextArgs ==
    \/ CallGetProb
    \/ GetProbRowAny
    \/ GetProbReturnAny
    \/ GetProbDone

\* get_prob called with arguments of any lengths.
SpecArgs == InitAdv /\ [][NextArgs]_vars

\* ------------------------------------------------- HiddenMixupModel.forward

\* Input images of HiddenMixupModel.forward (two pixels each).
MixImages == {<<0, 0>>, <<8, 4>>}

\* Values of mixup_alpha, in tenths: negative, zero and the default 0.1.
Alphas == {0 - 1, 0, 1}

\* The values random.randint(0, 4) draws: both ends are included.
LayerDraws == 0..4

\* The permutations torch.randperm(n) draws.
Perms(n) == {f \in [1..n -> 1..n] : \A a, b \in 1..n : a # b => f[a] # f[b]}

\* A slip: lam drawn from the Beta distribution whatever alpha is.
mixup_data_AlwaysDrawn(xs, y, alpha, draw, index) ==
    [mixed_x |-> Tensor([s \in 1..Len(xs) |->
                    Tensor([q \in DOMAIN xs[s] |->
                        NDiv(NAdd(NMul(Num(draw), xs[s][q]),
                                  NMul(Num(LamDen - draw), xs[index[s]][q])),
                             Num(LamDen))])]),
     y_a |-> y,
     y_b |-> Tensor([s \in 1..Len(y) |-> y[index[s]]]),
     lam |-> draw]

\* mixup_data(x, y, alpha) with the draw of np.random.beta and the index of
\* torch.randperm: lam in units of 1/LamDen.
mixup_data(xs, y, alpha, draw, index) ==
    LET l == IF alpha > 0 THEN draw ELSE LamDen
    IN  [mixed_x |-> Tensor([s \in 1..Len(xs) |->
                        Tensor([q \in DOMAIN xs[s] |->
                            NDiv(NAdd(NMul(Num(l), xs[s][q]),
                                      NMul(Num(LamDen - l), xs[index[s]][q])),
                                 Num(LamDen))])]),
         y_a |-> y,
         y_b |-> Tensor([s \in 1..Len(y) |-> y[index[s]]]),
         lam |-> l]

\* The layers between stage st and stage st + 1: convK and reluK for st < 3,
\* the view and fc for st = 3, nothing after stage 4.
LayerAfter(st, xs, b) ==
    IF st < 3 THEN ConvRelu(xs, b)
    ELSE IF st = 3 THEN Tensor([s \in 1..Len(xs) |-> Fc(xs[s])])
    ELSE xs

\* forward(x, target, mixup_hidden=True, mixup_alpha, layer_mix) up to its
\* first stage: layer_mix drawn where it is None.
MixCall ==
    /\ pc = "idle"
    /\ \E n \in 1..MaxMixN :
         \E xs \in [1..n -> {Vec(im) : im \in MixImages}], y \in [1..n -> AdvLabels] :
           /\ mix_x' = xs
           /\ fx' = xs
           /\ target' = y
    /\ mixup_alpha' \in Alphas
    /\ \E la \in {NoLayer} \cup LayerDraws :
         /\ layer_arg' = la
         /\ IF la = NoLayer THEN layer_mix' \in LayerDraws ELSE layer_mix' = la
    /\ stage' = 0
    /\ y_a' = <<>>
    /\ y_b' = <<>>
    /\ lam' = Unset
    /\ mix_count' = 0
    /\ mix_stage' = Unset
    /\ pc' = "mix"
    /\ UNCHANGED <<log_it, conv_bias, gpvars, loss, advvars, model, activations,
                   attrs_before, error, resvars>>

\* One stage of forward: `if layer_mix == stage: x, y_a, y_b, lam =
\* self.mixup_data(x, target, mixup_alpha)`, then the layers that follow the
\* stage; after stage 4, the return statement.
MixStage ==
    /\ pc = "mix"
    /\ IF layer_mix = stage
       THEN \E draw \in 0..LamDen, index \in Perms(Len(fx)) :
              \E m \in {mixup_data(fx, target, mixup_alpha, draw, index)} :
                /\ fx' = LayerAfter(stage, m.mixed_x, conv_bias)
                /\ y_a' = m.y_a
                /\ y_b' = m.y_b
                /\ lam' = m.lam
                /\ mix_count' = mix_count + 1
                /\ mix_stage' = stage
       ELSE /\ fx' = LayerAfter(stage, fx, conv_bias)
            /\ UNCHANGED <<y_a, y_b, lam, mix_count, mix_stage>>
    /\ IF stage < 4 THEN stage' = stage + 1 /\ pc' = pc
       ELSE stage' = stage /\ pc' = "mix_returned"
    /\ UNCHANGED <<log_it, conv_bias, gpvars, loss, advvars, model, activations,
                   attrs_before, error, mix_x, target, mixup_alpha, layer_arg,
                   layer_mix, resvars>>

\* The caller takes x, y_a, y_b and lam.
MixDone ==
    /\ pc = "mix_returned"
    /\ pc' = "idle"
    /\ fx' = <<>>
    /\ mix_x' = <<>>
    /\ target' = <<>>
    /\ mixup_alpha' = 0
    /\ layer_arg' = NoLayer
    /\ layer_mix' = NoLayer
    /\ stage' = 0
    /\ y_a' = <<>>
    /\ y_b' = <<>>
    /\ lam' = Unset
    /\ mix_count' = 0
    /\ mix_stage' = Unset
    /\ UNCHANGED <<log_it, conv_bias, gpvars, loss, advvars, model, activations,
                   attrs_before, error, resvars>>

NextMix ==
    \/ MixCall
    \/ MixStage
    \/ MixDone

\* A HiddenMixupModel after its __init__.
InitMix ==
    /\ log_it = 1
    /\ conv_bias \in ConvBiases
    /\ Idle
    /\ model = "HiddenMixupModel"
    /\ RestIdle

\* forward with mixup_hidden true.
SpecMix == InitMix /\ [][NextMix]_vars

\* ---------------------------------------------------- PreActResNet.__init__

\* The block classes and their class attribute expansion.
Blocks == {"PreActBlock", "PreActBottleneck"}

expansion(b) == IF b = "PreActBlock" THEN 1 ELSE 4

\* The counts num_blocks[k] a PreActResNet is built with.
BlockCounts == (0 - 1)..MaxBlocks

\* The planes and the stride of the four _make_layer calls of __init__.
LayerPlanes == <<64, 128, 256, 512>>

LayerStride == <<1, 2, 2, 2>>

\* [v] * n: the empty list for n <= 0.
RECURSIVE Repeat(_, _)
Repeat(v, n) == IF n <= 0 THEN <<>> ELSE <<v>> \o Repeat(v, n - 1)

\* A slip: every block of the layer given the layer's stride.
Strides_All(stride, n) == <<stride>> \o Repeat(stride, n - 1)

\* strides = [stride] + [1] * (num_blocks - 1)
Strides(stride, n) == <<stride>> \o Repeat(1, n - 1)

\* block(in_planes, planes, stride): the channels the block takes and gives
\* (conv2 of PreActBlock has planes output channels, conv3 of PreActBottleneck
\* expansion * planes), the stride of its strided convolution, and whether it
\* has the shortcut convolution.
Block(b, inp, planes, stride) ==
    [in_planes  |-> inp,
     planes     |-> planes,
     stride     |-> stride,
     out_planes |-> IF b = "PreActBlock" THEN planes ELSE expansion(b) * planes,
     shortcut   |-> stride # 1 \/ inp # expansion(b) * planes]

\* PreActResNet(block, num_blocks) up to the loop of its first _make_layer
\* call: self.in_planes = 64, strides and layers set.
ResInit ==
    /\ pc = "idle"
    /\ block' \in Blocks
    /\ \E nb \in [1..4 -> BlockCounts] :
         /\ num_blocks' = nb
         /\ strides' = Strides(LayerStride[1], nb[1])
    /\ in_planes' = InitPlanes
    /\ res_layers' = <<>>
    /\ layer' = 1
    /\ layers' = <<>>
    /\ pc' = "make_layer"
    /\ UNCHANGED <<log_it, conv_bias, gpvars, loss, advvars, fwdvars, error, mixvars>>

\* One iteration of _make_layer's loop: layers.append(block(self.in_planes,
\* planes, stride)); self.in_planes = planes * block.expansion
MakeBlock ==
    /\ pc = "make_layer"
    /\ strides # <<>>
    /\ layers' = Append(layers, Block(block, in_planes, LayerPlanes[layer], Head(strides)))
    /\ in_planes' = LayerPlanes[layer] * expansion(block)
    /\ strides' = Tail(strides)
    /\ UNCHANGED <<pc, log_it, conv_bias, gpvars, loss, advvars, fwdvars, error,
                   mixvars, block, num_blocks, res_layers, layer>>

\* return nn.Sequential(*layers), and the start of the next _make_layer call
\* or, after the fourth, the end of __init__.
MakeLayerReturn ==
    /\ pc = "make_layer"
    /\ strides = <<>>
    /\ res_layers' = Append(res_layers, layers)
    /\ layers' = <<>>
    /\ IF layer < 4
       THEN /\ layer' = layer + 1
            /\ strides' = Strides(LayerStride[layer + 1], num_blocks[layer + 1])
            /\ pc' = pc
       ELSE /\ UNCHANGED <<layer, strides>>
            /\ pc' = "res_built"
    /\ UNCHANGED <<log_it, conv_bias, gpvars, loss, advvars, fwdvars, error,
                   mixvars, block, num_blocks, in_planes>>

\* The caller takes the network.
ResDone ==
    /\ pc = "res_built"
    /\ pc' = "idle"
    /\ block' = "none"
    /\ num_blocks' = <<>>
    /\ in_planes' = 0
    /\ res_layers' = <<>>
    /\ layer' = 0
    /\ strides' = <<>>
    /\ layers' = <<>>
    /\ UNCHANGED <<log_it, conv_bias, gpvars, loss, advvars, fwdvars, error, mixvars>>

NextRes ==
    \/ ResInit
    \/ MakeBlock
    \/ MakeLayerReturn
    \/ ResDone

\* No PreActResNet built yet.
InitRes ==
    /\ log_it = 1
    /\ conv_bias \in ConvBiases
    /\ Idle
    /\ model = "PreActResNet"
    /\ RestIdle

\* The construction of PreActResNet objects.
SpecRes == InitRes /\ [][NextRes]_vars

Next == NextProb \/ NextAdv \/ NextFwd \/ NextArgs \/ NextMix \/ NextRes

Spec == Init /\ [][Next]_vars

\* ------------------------------------------------- claims about get_prob

\* The batch size of the running call.
N == Len(y_target)

\* The call has run its whole loop and returned p_target.
Returned == pc \in {"returned", "loss_returned"}

Min(a, b) == IF a <= b THEN a ELSE b

\* The scaled squared distance between embedding r and embedding j of the
\* comparison set, from the call's arguments alone.
ScaledDist(r, j) ==
    LET a == gx[r]
        b == IF x_orig.given THEN x_orig.rows[j] ELSE gx[j]
    IN  log_it * ((a[1].v - b[1].v) * (a[1].v - b[1].v)
                  + (a[2].v - b[2].v) * (a[2].v - b[2].v))

\* The neighbours j # r (of r's class when same is TRUE) whose weight is exp(-k).
Neighbours(r, k, same) ==
    {j \in (1..N) \ {r} : /\ same => y_target[j] = y_target[r]
                          /\ Min(ScaledDist(r, j), DistClamp) = k}

\* Every exponent k that row r's result or the claimed sums can hold; for any
\* other k both sides of C1 are 0.
Exponents(r) ==
    BagToSet(p_target[r].num) \cup BagToSet(p_target[r].den)
        \cup {Min(ScaledDist(r, j), DistClamp) : j \in 1..N}

\* C1: every row r that get_prob has computed holds
\* (sum over j # r with y[j] = y[r] of w[r,j]) / (sum over j # r of w[r,j]),
\* w[r,j] = exp(-min(dist[r,j], 50)), dist the squared distance times
\* exp(log_it), a value fixed by the call's arguments alone (so by no other
\* row's result); the rows not yet computed are still 0.
C1_GetProbFormula ==
    pc \in {"get_prob", "returned", "loss_returned"} =>
        /\ \A r \in 1..(i - 1) : \A k \in Exponents(r) :
             /\ CopiesIn(k, p_target[r].num) = Cardinality(Neighbours(r, k, TRUE))
             /\ CopiesIn(k, p_target[r].den) = Cardinality(Neighbours(r, k, FALSE))
        /\ \A r \in 1..(i - 1) :
             /\ BagToSet(p_target[r].num) \subseteq 0..DistClamp
             /\ BagToSet(p_target[r].den) \subseteq 0..DistClamp
        /\ \A r \in i..N : p_target[r] = ZeroProb

\* C1's case: a returned batch of three with a row whose probability is
\* strictly between 0 and 1 and has a clamped distance in it.
C1_Witness ==
    /\ Returned
    /\ N = 3
    /\ \E r \in 1..N : /\ ~ProbIsZero(p_target[r])
                       /\ ~ProbIsOne(p_target[r])
                       /\ ~ProbIsNaN(p_target[r])
                       /\ \E j \in 1..N : ScaledDist(r, j) > DistClamp

PairwiseDistinct == \A a, b \in 1..N : a # b => y_target[a] # y_target[b]

AllSame == \A a, b \in 1..N : y_target[a] = y_target[b]

\* C2 as stated: for every batch of N >= 1 samples with pairwise distinct
\* labels, get_prob returns p_target[r] = 0 for every r.
C2_UniqueLabelsZero_Original ==
    (Returned /\ N >= 1 /\ PairwiseDistinct) =>
        \A r \in 1..N : ProbIsZero(p_target[r])

\* C2 amended: for every batch of N >= 2 samples with pairwise distinct
\* labels, get_prob returns p_target[r] = 0 for every r (for N = 1 it is NaN).
C2_UniqueLabelsZero ==
    (Returned /\ N >= 2 /\ PairwiseDistinct) =>
        \A r \in 1..N : ProbIsZero(p_target[r])

\* C2's case: a returned batch of three samples with three different labels.
C2_Witness ==
    /\ Returned
    /\ N = 3
    /\ PairwiseDistinct
    /\ \A r \in 1..N : ProbIsZero(p_target[r])

\* C3 as stated: for every batch of N >= 1 samples that all carry one label,
\* get_prob returns p_target[r] = 1 for every r.
C3_SameLabelOne_Original ==
    (Returned /\ N >= 1 /\ AllSame) =>
        \A r \in 1..N : ProbIsOne(p_target[r])

\* C3 amended: for every batch of N >= 2 samples that all carry one label,
\* get_prob returns p_target[r] = 1 for every r (for N = 1 it is NaN).
C3_SameLabelOne ==
    (Returned /\ N >= 2 /\ AllSame) =>
        \A r \in 1..N : ProbIsOne(p_target[r])

\* C3's case: a returned batch of three same-label samples at different
\* places, compared with a given x_orig.
C3_Witness ==
    /\ Returned
    /\ N = 3
    /\ AllSame
    /\ x_orig.given
    /\ gx[1] # gx[2]
    /\ \A r \in 1..N : ProbIsOne(p_target[r])

Symmetric == \A a, b \in 1..Len(dist) : dist[a][b] = dist[b][a]

\* C4 as stated: dist[a,b] computed in row a equals dist[b,a] computed in row
\* b in every call of get_prob, with x_orig absent and with x_orig given.
C4_DistSymmetric_Original == Returned => Symmetric

\* C4 amended: dist[a,b] = dist[b,a] in every call of get_prob without x_orig
\* (and in one whose x_orig equals x); with another x_orig, dist[a,b] is the
\* distance from x[a] to x_orig[b], which need not equal dist[b,a].
C4_DistSymmetric ==
    (Returned /\ (~x_orig.given \/ x_orig.rows = gx)) => Symmetric

\* C4's case: a returned call without x_orig on three samples, two of them
\* at different places.
C4_Witness ==
    /\ Returned
    /\ ~x_orig.given
    /\ N = 3
    /\ gx[1] # gx[2]
    /\ dist[1][2].v > 0
    /\ Symmetric

\* C10: when some sample has p_target = 0, loss_function does not return an
\* infinite or NaN loss (the code has no path that raises an error instead).
C10_LossGuarded ==
    (pc = "loss_returned" /\ \E r \in 1..N : ProbIsZero(p_target[r])) =>
        loss = "fin"

\* ---------------------------------------------- claims about forward_adv

\* forward_adv is past its first lines: in its loop, or returned.
AdvActive == pc \in {"adv_loop", "adv_returned"}

\* forward(x) of the caller's unmodified input.
CleanOutputs == ForwardBatch(x_in, conv_bias)

\* C5 as stated: with num_steps = 0 the second returned output equals the
\* first, forward(x) of the unmodified input, whatever rand is.
C5_ZeroStepsNoOp_Original ==
    (pc = "adv_returned" /\ num_steps = 0) =>
        (result[2] = result[1] /\ result[2] = CleanOutputs)

\* C5 amended: with num_steps = 0 and rand false the second returned output
\* equals the first, forward(x) of the unmodified input (with rand true the
\* noise is added before the final forward).
C5_ZeroStepsNoOp ==
    (pc = "adv_returned" /\ num_steps = 0 /\ ~rand) =>
        (result[2] = result[1] /\ result[2] = CleanOutputs)

\* C5's case: forward_adv returned from a call with num_steps = 0 and rand
\* false on three samples, not all the same image.
C5_Witness ==
    /\ pc = "adv_returned"
    /\ num_steps = 0
    /\ ~rand
    /\ Len(x_in) = 3
    /\ x_in[1] # x_in[2]
    /\ result[2] = result[1]

InUnitRange(a) == a.fin /\ 0 <= a.v /\ a.v <= PixelOne

\* C6: at the end of every loop iteration, and so at the final forward of a
\* call with num_steps >= 1, every element of x lies in [0, 1], whatever the
\* (finite) gradient of the iteration was.
C6_Clipped ==
    (AdvActive /\ steps_done >= 1) =>
        \A s \in 1..Len(x) :
            VecFinite(grad[s]) => \A q \in DOMAIN x[s] : InUnitRange(x[s][q])

SqNorm(v) == v[1].v * v[1].v + v[2].v * v[2].v

Abs(n) == IF n < 0 THEN -n ELSE n

ZeroVec == Vec(<<0, 0>>)

\* C7: in every iteration, for every sample s whose gradient is finite and
\* not zero, delta[s] has L2 norm step_size and is grad[s] times the positive
\* factor step_size / ||grad[s]||.
C7_UnitStep ==
    (AdvActive /\ steps_done >= 1) =>
        \A s \in 1..Len(grad) :
            (VecFinite(grad[s]) /\ grad[s] # ZeroVec) =>
                /\ VecFinite(delta[s])
                /\ SqNorm(delta[s]) = step_size * step_size
                /\ \E n \in 1..(Abs(grad[s][1].v) + Abs(grad[s][2].v)) :
                     /\ n * n = SqNorm(grad[s])
                     /\ \A q \in 1..2 : delta[s][q].v * n = step_size * grad[s][q].v

\* C7's case: an iteration in which two samples have different gradients,
\* one of them with both components non-zero.
C7_Witness ==
    /\ AdvActive
    /\ steps_done >= 1
    /\ \E s, t \in 1..Len(grad) :
         /\ VecFinite(grad[s]) /\ VecFinite(grad[t])
         /\ grad[s][1].v # 0 /\ grad[s][2].v # 0
         /\ grad[t] # ZeroVec
         /\ SqNorm(grad[s]) # SqNorm(grad[t])
         /\ SqNorm(delta[t]) = step_size * step_size

\* C8: outputs_orig is forward of the input before any noise or step, in
\* every state of the call; the x_orig of every get_prob call of the loop is
\* that value, and so is the first returned value.
C8_FixedReference ==
    AdvActive =>
        /\ outputs_orig = CleanOutputs
        /\ steps_done >= 1 => (x_orig = Given(CleanOutputs) /\ gx = outputs)
        /\ pc = "adv_returned" => result[1] = CleanOutputs

\* C8's case: a call with noise that returned after two iterations, its final
\* input and its final embeddings different from the clean ones.
C8_Witness ==
    /\ pc = "adv_returned"
    /\ rand
    /\ steps_done = 2
    /\ x # x_in
    /\ \A s \in 1..Len(x) : VecFinite(x[s])
    /\ result[2] # result[1]
    /\ x_orig = Given(result[1])

\* C9: when a sample's gradient is exactly zero, the normalization does not
\* divide by zero: the sample's delta and its perturbed input hold no NaN/Inf.
C9_NormGuarded ==
    (AdvActive /\ steps_done >= 1) =>
        \A s \in 1..Len(grad) :
            grad[s] = ZeroVec => (VecFinite(delta[s]) /\ VecFinite(x[s]))

\* --------------------------------------------------- claims about forward

\* C11: forward leaves every attribute of the model object other than the
\* learned parameters unchanged: when a forward call of an NCAModel or an
\* SNNLModel returns, the attributes are what they were when it was entered.
C11_ForwardStateless == pc = "fwd_returned" => Attrs = attrs_before

\* The part of C11 that holds: NCAModel's forward changes no attribute.
NCAForwardStateless ==
    (model = "NCAModel" /\ pc = "fwd_returned") => Attrs = attrs_before

\* ------------------------------- claims about get_prob's argument checks

\* The arguments of the running get_prob call disagree in their number of
\* rows.
Mismatched ==
    \/ Len(y_target) # Len(gx)
    \/ (x_orig.given /\ Len(x_orig.rows) # Len(gx))

\* C12: get_prob fails fast on every dimension mismatch: a call whose
\* y_target has another number of labels than x has rows, or whose x_orig has
\* another number of rows than x, raises and returns no p_target.
C12_FailsFast == pc = "any_returned" => ~Mismatched

\* The part of C12 that holds: a mismatched x_orig is always refused, and so
\* is a mismatched y_target on a batch of two or more rows.
MismatchRefused ==
    (pc = "any_returned" /\ Mismatched) => (Len(gx) = 1 /\ Len(y_target) > 1)

\* Where the lengths agree the call is the one loss_function makes.
AgreesWithGetProb ==
    (pc = "any_returned" /\ ~Mismatched) =>
        p_target = GetProb(y_target, GetProbDist(gx, x_orig, log_it))

\* ----------------------------------- claims about forward_adv's iterations

\* steps rounds of (forward, get_prob, gradient, step, clip).
RECURSIVE Rounds(_)
Rounds(steps) ==
    IF steps = 0 THEN <<>>
    ELSE Rounds(steps - 1) \o <<"forward", "get_prob", "grad", "step", "clamp">>

\* C13: forward_adv terminates for every num_steps >= 0 after exactly
\* num_steps iterations of (forward, get_prob, gradient, step, clip), in that
\* order inside each iteration, followed by exactly one final forward call:
\* inside the loop the iterations done never exceed num_steps (so the loop
\* either has an iteration left or returns) and the operations performed are
\* the reference forward and whole rounds; on return they are the reference
\* forward, num_steps rounds and one more forward.
C13_FixedIterations ==
    /\ pc = "adv_loop" =>
         /\ steps_done <= num_steps
         /\ calls = <<"forward">> \o Rounds(steps_done)
    /\ pc = "adv_returned" =>
         /\ steps_done = num_steps
         /\ calls = (<<"forward">> \o Rounds(num_steps)) \o <<"forward">>

\* A call with num_steps at its largest has returned.
C13_Witness ==
    /\ pc = "adv_returned"
    /\ num_steps = MaxSteps
    /\ Len(calls) = 2 + 5 * MaxSteps

\* ------------------------------------------- claims about get_prob's clamp

\* The rows of p_target the running get_prob call has computed.
Computed == 1..Len(dist)

\* Row r's weights lie in [exp(-50), 1]: every exponent is in 0..DistClamp.
WeightsInRange(r) ==
    /\ BagToSet(p_target[r].num) \subseteq 0..DistClamp
    /\ BagToSet(p_target[r].den) \subseteq 0..DistClamp

\* Row r's denominator is strictly positive and p_target[r] lies in [0, 1]:
\* the numerator's terms are terms of the denominator.
ProbInUnitInterval(r) ==
    /\ p_target[r].den # EmptyBag
    /\ p_target[r].num \sqsubseteq p_target[r].den

\* C14: every scaled distance is clamped to at most 50 before negation and
\* exponentiation, so every neighbour weight lies in [exp(-50), 1]; for every
\* batch of N >= 2 samples the denominator is strictly positive and every
\* p_target[i] lies in [0, 1].
C14_ClampedWeights ==
    \A r \in Computed :
        /\ WeightsInRange(r)
        /\ N >= 2 => ProbInUnitInterval(r)

\* The part of C14 that holds: the same for the rows whose distances are all
\* numbers (torch.min hands a NaN distance on unclamped).
ClampedWeightsOfNumbers ==
    \A r \in Computed :
        (\A j \in DOMAIN dist[r] : ~IsNaN(dist[r][j])) =>
            /\ WeightsInRange(r)
            /\ N >= 2 => ProbInUnitInterval(r)

\* ------------------------------------- claims about get_prob with x_orig

\* The scaled squared distance between row r of x and row j of x_orig.
RefDist(r, j) ==
    LET a == gx[r]
        b == x_orig.rows[j]
    IN  log_it * ((a[1].v - b[1].v) * (a[1].v - b[1].v)
                  + (a[2].v - b[2].v) * (a[2].v - b[2].v))

\* The reference rows other than r (of r's class when same is TRUE) whose
\* weight for row r of x is exp(-k).
RefNeighbours(r, k, same) ==
    {j \in (1..N) \ {r} : /\ same => y_target[j] = y_target[r]
                          /\ Min(RefDist(r, j), DistClamp) = k}

\* C15: with x_orig given, row r of x is compared only against the rows of
\* x_orig: its distances are those to x_orig's rows, the reference row r is in
\* neither sum, every other reference row is in the denominator (N - 1 terms)
\* and those of r's class are in the numerator.
C15_ReferenceOnly ==
    (Returned /\ x_orig.given) =>
        \A r \in 1..N :
            /\ \A j \in 1..N : dist[r][j] = Num(RefDist(r, j))
            /\ BagCardinality(p_target[r].den) = N - 1
            /\ \A k \in BagToSet(p_target[r].den) \cup BagToSet(p_target[r].num)
                        \cup {Min(RefDist(r, j), DistClamp) : j \in 1..N} :
                 /\ CopiesIn(k, p_target[r].den) = Cardinality(RefNeighbours(r, k, FALSE))
                 /\ CopiesIn(k, p_target[r].num) = Cardinality(RefNeighbours(r, k, TRUE))

\* C15's case: a returned call on three rows whose x_orig differs from x in
\* every row, with a row r that is at another distance from its own clean
\* copy than from any other reference row, and at another distance from some
\* reference row j than from row j of x.
C15_Witness ==
    /\ Returned
    /\ x_orig.given
    /\ N = 3
    /\ \A r \in 1..N : gx[r] # x_orig.rows[r]
    /\ \E r \in 1..N :
         /\ \A j \in (1..N) \ {r} : RefDist(r, j) # RefDist(r, r)
         /\ \E j \in (1..N) \ {r} : dist[r][j] # Num(log_it * SqDist(gx[r], gx[j]).v)

\* ------------------------------------ claims about HiddenMixupModel.forward

\* The layers from stage a up to stage b, applied to xs.
RECURSIVE Stages(_, _, _)
Stages(a, b, xs) ==
    IF a >= b THEN xs ELSE Stages(a + 1, b, LayerAfter(a, xs, conv_bias))

\* lam * xs + (1 - lam) * xs[index], lam = l / LamDen.
Blend(xs, l, index) ==
    Tensor([s \in 1..Len(xs) |->
        Tensor([q \in DOMAIN xs[s] |->
            Num((l * xs[s][q].v + (LamDen - l) * xs[index[s]][q].v) \div LamDen)])])

\* C16: a call of forward with mixup_hidden true that has returned applied
\* mixup_data exactly once, at the stage layer_mix selects (the argument, or
\* the value drawn in 0..4 where it is None): the returned x is the network
\* with the blend of some permutation index put in at that stage, y_a is the
\* given target, y_b is target[index] for the same index, and lam is the blend's
\* weight; with mixup_alpha <= 0, lam is 1 and the returned x is the network's
\* output on the unmixed input.
C16_MixedOnce ==
    pc = "mix_returned" =>
        /\ mix_count = 1
        /\ layer_mix \in 0..4
        /\ layer_arg # NoLayer => layer_mix = layer_arg
        /\ mix_stage = layer_mix
        /\ y_a = target
        /\ lam \in 0..LamDen
        /\ \E index \in Perms(Len(target)) :
             /\ y_b = [s \in 1..Len(target) |-> target[index[s]]]
             /\ fx = Stages(layer_mix, 4, Blend(Stages(0, layer_mix, mix_x), lam, index))
        /\ mixup_alpha <= 0 =>
             /\ lam = LamDen
             /\ fx = Stages(0, 4, mix_x)

\* C16's cases: a returned call whose layer_mix was drawn (the argument None),
\* with a blend of two different samples that changed the output and permuted
\* the targets; and a returned call with mixup_alpha <= 0 on such a batch.
C16_Witness ==
    /\ pc = "mix_returned"
    /\ layer_arg = NoLayer
    /\ layer_mix = 4
    /\ mixup_alpha > 0
    /\ lam = 1
    /\ y_b # target
    /\ fx # Stages(0, 4, mix_x)

C16_WitnessNoMix ==
    /\ pc = "mix_returned"
    /\ mixup_alpha < 0
    /\ layer_mix = 2
    /\ y_b # target
    /\ mix_x[1] # mix_x[2]

\* ------------------------------------------------ claims about PreActResNet

\* The blocks built so far, in the order of their creation.
RECURSIVE Flat(_)
Flat(ls) == IF ls = <<>> THEN <<>> ELSE Head(ls) \o Flat(Tail(ls))

AllBlocks == Flat(res_layers) \o layers

\* C17: the in_planes counter keeps the channel chain consistent across the
\* four _make_layer calls: every block is created with in_planes equal to the
\* output channels (planes * expansion) of the block before it, 64 for the
\* first; only the first block of a layer has the layer's stride, the rest
\* stride 1; a finished layer holds n blocks for n >= 1 and one block for
\* n <= 0; when __init__ ends the counter is 512 * expansion.
C17_ChannelChain ==
    pc \in {"make_layer", "res_built"} =>
        /\ \A k \in 1..Len(AllBlocks) :
             /\ AllBlocks[k].in_planes =
                  IF k = 1 THEN 64 ELSE AllBlocks[k - 1].out_planes
             /\ AllBlocks[k].out_planes = AllBlocks[k].planes * expansion(block)
        /\ \A l \in 1..Len(res_layers) :
             /\ Len(res_layers[l]) = IF num_blocks[l] >= 1 THEN num_blocks[l] ELSE 1
             /\ \A k \in 1..Len(res_layers[l]) :
                  /\ res_layers[l][k].stride = IF k = 1 THEN LayerStride[l] ELSE 1
                  /\ res_layers[l][k].planes = LayerPlanes[l]
        /\ pc = "res_built" =>
             /\ Len(res_layers) = 4
             /\ in_planes = 512 * expansion(block)

\* C17's case: a network of bottlenecks is built whose layers have the
\* largest number of blocks, no block (num_blocks 0) and a negative number.
C17_Witness ==
    /\ pc = "res_built"
    /\ block = "PreActBottleneck"
    /\ num_blocks[1] = MaxBlocks
    /\ num_blocks[2] = 0
    /\ num_blocks[3] < 0
    /\ num_blocks[4] = MaxBlocks

====
